---- MODULE Spec2Model ----
(***************************************************************************)
(* State-machine model of the tabbed image-analysis workspace:             *)
(*   App.tsx              the session store (tabs, activeTabId)            *)
(*   TabbedInterface.tsx  the tab strip (drag and drop, current tab)       *)
(*   TabContent.tsx       the session panel handlers                       *)
(*   ImageUploader        (PromptOutput.tsx lines 131-467) image intake    *)
(*   ImageCropperModal    (unnamed/part_002) the cropping tool             *)
(*   AnalysisOptions      (unnamed/part_001) the option selector           *)
(* Asynchronous work (file read, fetch, crop, analysis call) is a bag of   *)
(* pending operations; each completes in a later step of its own.          *)
(***************************************************************************)
EXTENDS Integers, Sequences, FiniteSets, Bags, TLC

VARIABLES
  tabs,           \* App.tsx:6   ordered list of Tab records
  activeTabId,    \* App.tsx:7   id of the active tab, NoTab before the first
  nextId,         \* the next id generateUniqueId hands out (App.tsx:10)
  mounted,        \* whether the mount effect of App.tsx:13-18 has run
  draggingTabId,  \* TabbedInterface.tsx:27
  uploader,       \* local state of the mounted ImageUploader
  cropper,        \* local state of the mounted ImageCropperModal
  ops,            \* bag of asynchronous operations in flight
  last            \* history: the handler that ran last and the tab it ran for

vars == <<tabs, activeTabId, nextId, mounted, draggingTabId, uploader, cropper, ops, last>>

(***************************************************************************)
(* Bounds of the model.                                                    *)
(***************************************************************************)
MaxTabs == 2       \* tabs in the list at once
MaxIds == 3        \* ids generateUniqueId hands out in one run
MaxInFlight == 2   \* asynchronous operations in flight at once
NumImages == 1     \* distinct images the user can supply
NumResults == 1    \* distinct results the analysis service can return
MaxSelected == 2   \* options selected at once, where the prompt is formatted

(***************************************************************************)
(* Values.                                                                 *)
(***************************************************************************)
Null == 0                       \* null of uploadedImage, rawAnalysisResult, ids
NoTab == Null                   \* '' of activeTabId (App.tsx:7)
NoError == "null"               \* null of the error field
TabIds == 1..MaxIds
Images == 1..NumImages
CroppedImage == NumImages + 1   \* the data URL getCroppedImg re-encodes
Results == 1..NumResults

OPT_OTHER == "OTHER"
CHARACTER_ATTIRE == "CHARACTER_ATTIRE"
\* selections the multi-select can report, in option order
OptionChoices == {<<>>, <<OPT_OTHER>>, <<CHARACTER_ATTIRE>>}
\* contents of the free-text input: empty, whitespace only, real text
Texts == {"", " ", "x"}
\* texts of the rename box of a tab
NameTexts == {"", " ", "x", " x "}
\* a plausible slip: the text tested without trim()
TrimForgotten(s) == s
\* String.prototype.trim on the modelled texts
Trim(s) == IF s = " " THEN "" ELSE IF s = " x " THEN "x" ELSE s
Includes(seq, x) == \E i \in 1..Len(seq) : seq[i] = x

\* error messages, named after the place that sets them
ERR_NO_IMAGE == "ERR_NO_IMAGE"            \* TabContent.tsx:33
ERR_OTHER_BLANK == "ERR_OTHER_BLANK"      \* TabContent.tsx:39
ERR_ANALYSIS == "ERR_ANALYSIS"            \* TabContent.tsx:50
ERR_READ == "ERR_READ"                    \* PromptOutput.tsx:165,169
ERR_PASTE_DUP == "ERR_PASTE_DUP"          \* PromptOutput.tsx:235
ERR_CLIP_FILE == "ERR_CLIP_FILE"          \* PromptOutput.tsx:253
ERR_CLIP_NONE == "ERR_CLIP_NONE"          \* PromptOutput.tsx:260
ERR_FETCH == "ERR_FETCH"                  \* PromptOutput.tsx:222
ERR_URL_BLANK == "ERR_URL_BLANK"          \* PromptOutput.tsx:271
ERR_URL_INVALID == "ERR_URL_INVALID"      \* PromptOutput.tsx:275
ERR_CROP_EMPTY == "ERR_CROP_EMPTY"        \* part_002:129
ERR_CROP_FAILED == "ERR_CROP_FAILED"      \* part_002:140

(***************************************************************************)
(* App.tsx: the session store.                                             *)
(***************************************************************************)
\* App.tsx:34: the name of a new tab, from the number of tabs plus one
TabName(n) == "Tab " \o ToString(n)

createNewTab(name, id) ==
  [id |-> id,
   name |-> name,
   contentState |-> [uploadedImage |-> Null,
                     selectedOptions |-> <<>>,
                     rawAnalysisResult |-> Null,
                     isLoading |-> FALSE,
                     error |-> NoError,
                     otherAnalysisText |-> ""]]

\* { ...tab.contentState, ...newState }
Merge(contentState, newState) ==
  [f \in DOMAIN contentState |->
     IF f \in DOMAIN newState THEN newState[f] ELSE contentState[f]]

\* a plausible slip: the test of the tab id left out
onTabContentStateChangeEveryTab(prevTabs, tabId, newState) ==
  [i \in 1..Len(prevTabs) |->
     [prevTabs[i] EXCEPT !.contentState = Merge(@, newState)]]

\* a plausible slip: an update for an id that is not in the list adds a tab
\* for it
onTabContentStateChangeUpsert(prevTabs, tabId, newState) ==
  IF \E i \in 1..Len(prevTabs) : prevTabs[i].id = tabId
  THEN [i \in 1..Len(prevTabs) |->
          IF prevTabs[i].id = tabId
          THEN [prevTabs[i] EXCEPT !.contentState = Merge(@, newState)]
          ELSE prevTabs[i]]
  ELSE Append(prevTabs,
              [createNewTab("", tabId) EXCEPT !.contentState = Merge(@, newState)])

\* the updater of onTabContentStateChange
onTabContentStateChange(prevTabs, tabId, newState) ==
  [i \in 1..Len(prevTabs) |->
     IF prevTabs[i].id = tabId
     THEN [prevTabs[i] EXCEPT !.contentState = Merge(@, newState)]
     ELSE prevTabs[i]]

\* App.tsx:39-43: the updater of renameTab
renameTab(prevTabs, id, newName) ==
  [i \in 1..Len(prevTabs) |->
     IF prevTabs[i].id = id THEN [prevTabs[i] EXCEPT !.name = newName] ELSE prevTabs[i]]

\* prevTabs.filter((tab) => tab.id !== id)
FilterOut(prevTabs, id) == SelectSeq(prevTabs, LAMBDA t : t.id # id)

TabIdsOf(ts) == {ts[i].id : i \in 1..Len(ts)}
\* tabs.find((tab) => tab.id === id), for an id in the list
TabOf(ts, id) == ts[CHOOSE i \in 1..Len(ts) : ts[i].id = id]
\* tabs.findIndex, as a JavaScript index: 0-based, -1 when absent
FindIndex(ts, id) ==
  IF id \in TabIdsOf(ts)
  THEN (CHOOSE i \in 1..Len(ts) : ts[i].id = id /\ \A j \in 1..(i - 1) : ts[j].id # id) - 1
  ELSE -1

\* result.splice(startIndex, 1): the list without the element at startIndex
SpliceOut(s, startIndex) ==
  [i \in 1..(Len(s) - 1) |-> IF i <= startIndex THEN s[i] ELSE s[i + 1]]
\* result.splice(endIndex, 0, removed): removed inserted at endIndex
SpliceIn(s, endIndex, removed) ==
  [i \in 1..(Len(s) + 1) |->
     IF i <= endIndex THEN s[i] ELSE IF i = endIndex + 1 THEN removed ELSE s[i - 1]]

\* a plausible slip: the element inserted is the one now at startIndex
reorderTabsStaleElement(prevTabs, startIndex, endIndex) ==
  SpliceIn(SpliceOut(prevTabs, startIndex), endIndex, SpliceOut(prevTabs, startIndex)[1])

\* a plausible slip: the element inserted after the place it was dropped on
reorderTabsOffByOne(prevTabs, startIndex, endIndex) ==
  LET rest == SpliceOut(prevTabs, startIndex)
      at == IF endIndex + 1 <= Len(rest) THEN endIndex + 1 ELSE Len(rest) IN
  SpliceIn(rest, at, prevTabs[startIndex + 1])

\* App.tsx:62-69: the updater of reorderTabs, for indices inside the list
reorderTabs(prevTabs, startIndex, endIndex) ==
  SpliceIn(SpliceOut(prevTabs, startIndex), endIndex, prevTabs[startIndex + 1])

\* TabbedInterface.tsx:56: the tab whose TabContent is mounted, NoTab if none
CurrentTabId(ts, active) == IF active \in TabIdsOf(ts) THEN active ELSE NoTab


(***************************************************************************)
(* TabContent.tsx: the partial states its handlers merge into the store.   *)
(***************************************************************************)
\* a plausible slip: the stale result kept
handleImageUploadKeepingResult(base64Image) ==
  [uploadedImage |-> base64Image, error |-> NoError]

\* TabContent.tsx:18-21
handleImageUpload(base64Image) ==
  [uploadedImage |-> base64Image, rawAnalysisResult |-> Null, error |-> NoError]

\* a plausible slip: the result of the deleted image kept
handleDeleteImageKeepingResult == [uploadedImage |-> Null, error |-> NoError]
\* TabContent.tsx:60-63
handleDeleteImage ==
  [uploadedImage |-> Null, rawAnalysisResult |-> Null, error |-> NoError]

\* TabContent.tsx:56-58
\* a plausible slip: reporting an error also drops the analysis result
handleSetErrorDroppingResult(errorMessage) ==
  [error |-> errorMessage, rawAnalysisResult |-> Null]

handleSetError(errorMessage) == [error |-> errorMessage]

(***************************************************************************)
(* Local component state.  TabContent is keyed by the tab id                *)
(* (TabbedInterface.tsx:98-105), so the ImageUploader and the cropping     *)
(* modal are fresh instances whenever the current tab changes.             *)
(***************************************************************************)
InitUploader ==
  [isProcessingPaste |-> FALSE,   \* PromptOutput.tsx:143
   urlInput |-> "",               \* PromptOutput.tsx:144
   isUrlLoading |-> FALSE,        \* PromptOutput.tsx:145
   showCropper |-> FALSE,         \* PromptOutput.tsx:149
   imageToCropUrl |-> Null]       \* PromptOutput.tsx:150

InitCropper ==
  [croppedAreaPixels |-> "null",  \* part_002:86
   isCropping |-> FALSE]          \* part_002:87

\* texts of the URL box: empty, an invalid URL, a URL of an image file
UrlTexts == {"", "bad", "good"}
isValidImageUrl(text) == text = "good"
\* what react-easy-crop can report as the selected rectangle
CropAreas == {"zero", "rect"}
\* what a paste event can carry
Clipboards == {"imageFile", "noFile", "url", "text"}

\* PromptOutput.tsx:455: the modal is rendered
ModalOpen(u) == u.showCropper /\ u.imageToCropUrl # Null

cur == CurrentTabId(tabs, activeTabId)
cs == TabOf(tabs, cur).contentState
\* PromptOutput.tsx:153
currentLoading == cs.isLoading \/ uploader.isProcessingPaste \/ uploader.isUrlLoading
\* a plausible slip: the loading flag left out of the test
isAnalyzeButtonDisabledWithoutLoading == cs.uploadedImage = Null
\* part_001:33
isAnalyzeButtonDisabled == cs.isLoading \/ cs.uploadedImage = Null
\* part_001:47: the option selector
isOptionSelectDisabled == cs.isLoading
\* PromptOutput.tsx:93
showActionButtons == cs.rawAnalysisResult # Null /\ ~cs.isLoading /\ cs.error = NoError

(***************************************************************************)
(* Asynchronous operations in flight.  up and modal say whether the        *)
(* ImageUploader and the modal instance that started the operation are     *)
(* still mounted: a state setter of an unmounted instance does nothing.    *)
(***************************************************************************)
Op(kind, tab, phase, img, up, modal) ==
  [kind |-> kind, tab |-> tab, phase |-> phase, img |-> img, up |-> up, modal |-> modal]

IngestKinds == {"file", "pasteFile", "pasteUrl", "url"}
InFlight == BagCardinality(ops)
HasRoom == InFlight < MaxInFlight
Pending == BagToSet(ops)
Without(op) == ops (-) SetToBag({op})
With(op) == ops (+) SetToBag({op})

\* every operation loses its uploader and its modal
Orphaned(b) == BagOfAll(LAMBDA o : [o EXCEPT !.up = FALSE, !.modal = FALSE], b)
\* every operation loses its modal
Unmodalled(b) == BagOfAll(LAMBDA o : [o EXCEPT !.modal = FALSE], b)

\* local state after the store changed to (newTabs, newActive)
Remount(newTabs, newActive) ==
  IF CurrentTabId(newTabs, newActive) # CurrentTabId(tabs, activeTabId)
  THEN /\ uploader' = InitUploader
       /\ cropper' = InitCropper
       /\ ops' = Orphaned(ops)
  ELSE UNCHANGED <<uploader, cropper, ops>>

\* what a fetch can answer: it throws (network, CORS), or it returns a status
\* and a Content-Type header.  A header is the sequence of its pieces, so
\* that startsWith looks at the first; <<>> is a header absent or empty.
ContentTypes == {<<>>, <<"text/", "html">>, <<"image/", "png">>, <<"x-", "image/">>}
NoResponse == [thrown |-> TRUE, ok |-> FALSE, contentType |-> <<>>]
Responses ==
  {NoResponse} \cup [thrown : {FALSE}, ok : BOOLEAN, contentType : ContentTypes]

\* a plausible slip: the Content-Type header not looked at
responseAcceptedByStatus(response) == ~response.thrown /\ response.ok
\* PromptOutput.tsx:208-215: fetch did not throw, response.ok, and the
\* Content-Type header is present and starts with image/
responseAccepted(response) ==
  /\ ~response.thrown
  /\ response.ok
  /\ ~(response.contentType = <<>> \/ response.contentType[1] # "image/")

\* no partial state
NoPartial == [none |-> TRUE]

\* the handler that ran last, for whom, with what input; resp is the answer
\* a fetch got, partial the partial state a content update was called with,
\* sent the image an analysis that returned had been asked about
Did(op, tab, arg) ==
  last' = [op |-> op, tab |-> tab, arg |-> arg, resp |-> NoResponse,
           partial |-> NoPartial, sent |-> Null]


(***************************************************************************)
(* Init: App after construction, before its mount effect.                  *)
(***************************************************************************)
Init ==
  /\ tabs = <<>>
  /\ activeTabId = NoTab
  /\ nextId = 1
  /\ mounted = FALSE
  /\ draggingTabId = Null
  /\ uploader = InitUploader
  /\ cropper = InitCropper
  /\ ops = EmptyBag
  /\ last = [op |-> "init", tab |-> NoTab, arg |-> "", resp |-> NoResponse,
             partial |-> NoPartial, sent |-> Null]

(***************************************************************************)
(* App.tsx: store operations.                                              *)
(***************************************************************************)
\* App.tsx:33-37.  The name counts the tabs of the render addTab closes over.
addTab ==
  LET newTab == createNewTab(TabName(Len(tabs) + 1), nextId) IN
  /\ tabs' = Append(tabs, newTab)
  /\ activeTabId' = newTab.id
  /\ nextId' = nextId + 1
  /\ Remount(Append(tabs, newTab), newTab.id)
  /\ Did("addTab", newTab.id, "")
  /\ UNCHANGED draggingTabId

\* App.tsx:13-18: the effect that runs once on mount
MountEffect ==
  /\ ~mounted
  /\ mounted' = TRUE
  /\ Len(tabs) = 0
  /\ addTab

\* the add button, TabbedInterface.tsx:78-94
AddTabClick ==
  /\ mounted
  /\ Len(tabs) < MaxTabs
  /\ nextId <= MaxIds
  /\ addTab
  /\ UNCHANGED mounted

\* App.tsx:53 calls addTab, and with it setTabs, from inside the updater
\* deleteTab hands to setTabs.  React requires updaters to be pure and fixes
\* no order for an update queued from inside one: when the outer updater runs
\* at render time the nested append is applied to its result, and when it
\* runs eagerly at dispatch the nested update is queued first and the value
\* the outer updater returned replaces it.
NestedAddTabOutcomes(filteredTabs, newTab) ==
  {Append(filteredTabs, newTab), filteredTabs}

\* App.tsx:45-60
deleteTab(id) ==
  LET filteredTabs == FilterOut(tabs, id)
      newTab == createNewTab(TabName(Len(tabs) + 1), nextId) IN
  /\ mounted
  /\ id \in TabIdsOf(tabs)
  /\ IF id = activeTabId /\ Len(filteredTabs) > 0
     THEN /\ tabs' = filteredTabs
          /\ activeTabId' = filteredTabs[1].id
          /\ UNCHANGED nextId
     ELSE IF Len(filteredTabs) = 0
     THEN /\ nextId <= MaxIds
          /\ tabs' \in NestedAddTabOutcomes(filteredTabs, newTab)
          /\ activeTabId' = newTab.id
          /\ nextId' = nextId + 1
     ELSE /\ tabs' = filteredTabs
          /\ UNCHANGED <<activeTabId, nextId>>
  /\ Remount(tabs', activeTabId')
  /\ Did("deleteTab", id, "")
  /\ UNCHANGED <<mounted, draggingTabId>>

DeleteTabClick == \E id \in TabIds : deleteTab(id)

\* TabbedInterface.tsx:68: onClick of a tab
SetActiveTab ==
  \E id \in TabIdsOf(tabs) :
    /\ activeTabId' = id
    /\ Remount(tabs, id)
    /\ Did("setActiveTab", id, "")
    /\ UNCHANGED <<tabs, nextId, mounted, draggingTabId>>

\* a plausible slip: the typed name tested without trim()
renameAcceptedUntrimmed(newTabName, tabName) ==
  newTabName # "" /\ newTabName # tabName
\* part_000:52
renameAccepted(newTabName, tabName) ==
  Trim(newTabName) # "" /\ newTabName # tabName

\* part_000:51-56, on Enter or blur of the rename box holding newTabName
handleRenameSubmit ==
  \E id \in TabIdsOf(tabs), newTabName \in NameTexts :
    /\ tabs' = IF renameAccepted(newTabName, TabOf(tabs, id).name)
               THEN renameTab(tabs, id, Trim(newTabName))
               ELSE tabs
    /\ Did("handleRenameSubmit", id, newTabName)
    /\ UNCHANGED <<activeTabId, nextId, mounted, draggingTabId, uploader, cropper, ops>>

\* TabbedInterface.tsx:29-33
handleDragStart ==
  \E id \in TabIdsOf(tabs) :
    /\ draggingTabId' = id
    /\ Did("handleDragStart", id, "")
    /\ UNCHANGED <<tabs, activeTabId, nextId, mounted, uploader, cropper, ops>>

\* TabbedInterface.tsx:40-54
handleDrop ==
  \E targetId \in TabIdsOf(tabs) :
    LET startIndex == FindIndex(tabs, draggingTabId)
        endIndex == FindIndex(tabs, targetId) IN
    /\ draggingTabId' = Null
    /\ IF draggingTabId = Null \/ draggingTabId = targetId
       THEN /\ Did("handleDrop", targetId, "")
            /\ UNCHANGED tabs
       ELSE IF startIndex # -1 /\ endIndex # -1
       THEN /\ tabs' = reorderTabs(tabs, startIndex, endIndex)
            /\ Did("handleDrop", targetId, "")
       ELSE /\ Did("handleDrop", targetId, "")
            /\ UNCHANGED tabs
    /\ UNCHANGED <<activeTabId, nextId, mounted, uploader, cropper, ops>>


(***************************************************************************)
(* TabContent.tsx and AnalysisOptions: the session panel of the current    *)
(* tab.                                                                    *)
(***************************************************************************)
StoreOnly == UNCHANGED <<activeTabId, nextId, mounted, draggingTabId>>

\* a plausible slip: a new selection also clears the error
optionChangeClearingError(options) == [selectedOptions |-> options, error |-> NoError]
\* TabContent.tsx:24: the partial state of a new selection
optionChange(options) == [selectedOptions |-> options]

\* TabContent.tsx:23-25, the select of part_001:41-55 (disabled while loading)
handleOptionChange ==
  \E options \in OptionChoices :
    /\ cur # NoTab
    /\ ~isOptionSelectDisabled
    /\ tabs' = onTabContentStateChange(tabs, cur, optionChange(options))
    /\ Did("handleOptionChange", cur, "")
    /\ StoreOnly
    /\ UNCHANGED <<uploader, cropper, ops>>

\* TabContent.tsx:27-29, the textarea of TabContent.tsx:98-114
handleOtherAnalysisTextChange ==
  \E text \in Texts :
    /\ cur # NoTab
    /\ Includes(cs.selectedOptions, OPT_OTHER)
    /\ ~cs.isLoading
    /\ tabs' = onTabContentStateChange(tabs, cur, [otherAnalysisText |-> text])
    /\ Did("handleOtherAnalysisTextChange", cur, "")
    /\ StoreOnly
    /\ UNCHANGED <<uploader, cropper, ops>>

\* a plausible slip: the image check of TabContent.tsx:32 left out
analyzeValidationWithoutImageCheck(c) ==
  IF Includes(c.selectedOptions, OPT_OTHER) /\ Trim(c.otherAnalysisText) = ""
  THEN ERR_OTHER_BLANK
  ELSE NoError

\* TabContent.tsx:32-41: the two validations of handleAnalyze, as the error
\* they report (NoError when the request is valid)
analyzeValidation(c) ==
  IF c.uploadedImage = Null
  THEN ERR_NO_IMAGE
  ELSE IF Includes(c.selectedOptions, OPT_OTHER) /\ Trim(c.otherAnalysisText) = ""
  THEN ERR_OTHER_BLANK
  ELSE NoError

\* TabContent.tsx:31-44: handleAnalyze up to the call of analyzeImage
handleAnalyze(isDetailedRequest) ==
  /\ IF analyzeValidation(cs) # NoError
     THEN /\ tabs' = onTabContentStateChange(tabs, cur, [error |-> analyzeValidation(cs)])
          /\ UNCHANGED ops
     ELSE /\ HasRoom
          /\ tabs' = onTabContentStateChange(tabs, cur,
                       [isLoading |-> TRUE, error |-> NoError, rawAnalysisResult |-> Null])
          /\ ops' = With(Op("analyze", cur,
                            IF isDetailedRequest THEN "detailed" ELSE "normal",
                            cs.uploadedImage, FALSE, FALSE))
  /\ Did("handleAnalyze", cur, IF isDetailedRequest THEN "detailed" ELSE "normal")
  /\ StoreOnly
  /\ UNCHANGED <<uploader, cropper>>

\* the analyze button, part_001:61-63
AnalyzeClick ==
  /\ cur # NoTab
  /\ ~isAnalyzeButtonDisabled
  /\ handleAnalyze(FALSE)

\* the detailed re-analysis button, PromptOutput.tsx:106-116
handleRefineDetailRequest ==
  /\ cur # NoTab
  /\ showActionButtons
  /\ handleAnalyze(TRUE)

\* TabContent.tsx:48: the try block after the await
analyzeSucceeded(result) == [rawAnalysisResult |-> result, error |-> NoError]
\* TabContent.tsx:50: the catch block
analyzeFailed == [error |-> ERR_ANALYSIS]
\* a plausible slip: no finally block, nothing merged
analyzeFinallyLeftOut == <<>>
\* TabContent.tsx:52: the finally block
analyzeFinally == [isLoading |-> FALSE]

\* a plausible slip on the side of caution: a result for an image the
\* session no longer holds is dropped
responseAppliedIfCurrent(ts, op, result) ==
  IF op.tab \in TabIdsOf(ts) /\ TabOf(ts, op.tab).contentState.uploadedImage # op.img
  THEN ts
  ELSE onTabContentStateChange(ts, op.tab, analyzeSucceeded(result))
\* TabContent.tsx:48: the result is merged into the session of the request,
\* whatever image that session holds now
responseApplied(ts, op, result) ==
  onTabContentStateChange(ts, op.tab, analyzeSucceeded(result))

\* TabContent.tsx:46-53: analyzeImage returns or throws
AnalyzeDone ==
  \E op \in Pending, result \in Results \cup {Null} :
    /\ op.kind = "analyze"
    /\ tabs' = onTabContentStateChange(
                 IF result # Null
                 THEN responseApplied(tabs, op, result)
                 ELSE onTabContentStateChange(tabs, op.tab, analyzeFailed),
                 op.tab, analyzeFinally)
    /\ ops' = Without(op)
    /\ last' = [op |-> "AnalyzeDone", tab |-> op.tab,
                arg |-> IF result # Null THEN "ok" ELSE "fail",
                resp |-> NoResponse, partial |-> NoPartial, sent |-> op.img]
    /\ StoreOnly
    /\ UNCHANGED <<uploader, cropper>>


(***************************************************************************)
(* ImageUploader (PromptOutput.tsx:131-467).                               *)
(***************************************************************************)
\* PromptOutput.tsx:175-191 with processFile (155-173) up to readAsDataURL;
\* the file input is rendered without an image and disabled by currentLoading
handleFileChange ==
  \E img \in Images :
    /\ cur # NoTab
    /\ cs.uploadedImage = Null
    /\ ~currentLoading
    /\ HasRoom
    /\ uploader' = [uploader EXCEPT !.isProcessingPaste = TRUE]
    /\ tabs' = onTabContentStateChange(tabs, cur, handleSetError(NoError))
    /\ ops' = With(Op("file", cur, "read", img, TRUE, FALSE))
    /\ Did("handleFileChange", cur, "")
    /\ StoreOnly
    /\ UNCHANGED cropper

\* a plausible slip: only the loading flags tested
pasteRefusedOnlyWhileLoading == currentLoading
\* PromptOutput.tsx:233
pasteRefused == currentLoading \/ cs.uploadedImage # Null

\* PromptOutput.tsx:228-267, up to the first await
handlePaste ==
  \E clip \in Clipboards, img \in Images :
    LET cleared == onTabContentStateChange(tabs, cur, handleSetError(NoError)) IN
    /\ cur # NoTab
    /\ IF pasteRefused
       THEN /\ tabs' = IF cs.uploadedImage # Null
                       THEN onTabContentStateChange(cleared, cur, handleSetError(ERR_PASTE_DUP))
                       ELSE cleared
            /\ UNCHANGED <<uploader, ops>>
       ELSE IF clip = "imageFile"
       THEN /\ HasRoom
            /\ uploader' = [uploader EXCEPT !.isProcessingPaste = TRUE]
            /\ tabs' = cleared
            /\ ops' = With(Op("pasteFile", cur, "read", img, TRUE, FALSE))
       ELSE IF clip = "noFile"
       THEN /\ tabs' = onTabContentStateChange(cleared, cur, handleSetError(ERR_CLIP_FILE))
            /\ UNCHANGED <<uploader, ops>>
       ELSE IF clip = "url"
       THEN /\ HasRoom
            /\ uploader' = [uploader EXCEPT !.isProcessingPaste = TRUE, !.isUrlLoading = TRUE]
            /\ tabs' = cleared
            /\ ops' = With(Op("pasteUrl", cur, "fetch", img, TRUE, FALSE))
       ELSE /\ tabs' = onTabContentStateChange(cleared, cur, handleSetError(ERR_CLIP_NONE))
            /\ UNCHANGED <<uploader, ops>>
    /\ Did("handlePaste", cur, clip)
    /\ StoreOnly
    /\ UNCHANGED cropper

\* PromptOutput.tsx:415: the URL box, rendered without an image and disabled
\* by currentLoading
UrlInputChange ==
  \E text \in UrlTexts :
    /\ cur # NoTab
    /\ cs.uploadedImage = Null
    /\ ~currentLoading
    /\ uploader' = [uploader EXCEPT !.urlInput = text]
    /\ Did("UrlInputChange", cur, "")
    /\ StoreOnly
    /\ UNCHANGED <<tabs, cropper, ops>>

\* PromptOutput.tsx:269-287 with fetchImageFromUrl (204-208) up to the fetch
handleUrlLoadClick ==
  \E img \in Images :
    /\ cur # NoTab
    /\ IF Trim(uploader.urlInput) = ""
       THEN /\ tabs' = onTabContentStateChange(tabs, cur, handleSetError(ERR_URL_BLANK))
            /\ UNCHANGED <<uploader, ops>>
       ELSE IF ~isValidImageUrl(Trim(uploader.urlInput))
       THEN /\ tabs' = onTabContentStateChange(tabs, cur, handleSetError(ERR_URL_INVALID))
            /\ UNCHANGED <<uploader, ops>>
       ELSE IF currentLoading
       THEN UNCHANGED <<tabs, uploader, ops>>
       ELSE /\ HasRoom
            /\ tabs' = onTabContentStateChange(tabs, cur, handleSetError(NoError))
            /\ uploader' = [uploader EXCEPT !.isUrlLoading = TRUE]
            /\ ops' = With(Op("url", cur, "fetch", img, TRUE, FALSE))
    /\ Did("handleUrlLoadClick", cur, "")
    /\ StoreOnly
    /\ UNCHANGED cropper

\* the load button (PromptOutput.tsx:427-429) and the Enter key (420-425):
\* rendered without an image, they need a non-blank URL and no loading
UrlLoadClick ==
  /\ cur # NoTab
  /\ cs.uploadedImage = Null
  /\ ~currentLoading
  /\ Trim(uploader.urlInput) # ""
  /\ handleUrlLoadClick

\* a plausible slip: the flags cleared after the awaits instead of in a
\* finally block, so that a failure leaves them set
IngestEndedWithoutFinally(u, op, landed) ==
  IF ~op.up \/ ~landed THEN u
  ELSE [u EXCEPT
          !.isProcessingPaste = IF op.kind \in {"file", "pasteFile", "pasteUrl"} THEN FALSE ELSE @,
          !.isUrlLoading = IF op.kind \in {"pasteUrl", "url"} THEN FALSE ELSE @,
          !.urlInput = IF op.kind \in {"pasteUrl", "url"} THEN "" ELSE @]

\* the flags and the URL box when an ingestion of this uploader ends
\* (PromptOutput.tsx:184, 219, 224, 265)
IngestEnded(u, op, landed) ==
  IF ~op.up THEN u
  ELSE [u EXCEPT
          !.isProcessingPaste = IF op.kind \in {"file", "pasteFile", "pasteUrl"} THEN FALSE ELSE @,
          !.isUrlLoading = IF op.kind \in {"pasteUrl", "url"} THEN FALSE ELSE @,
          !.urlInput = IF landed /\ op.kind \in {"pasteUrl", "url"} THEN "" ELSE @]

\* the message an ingestion failure surfaces (PromptOutput.tsx:182, 222, 263, 285)
IngestError(op) == IF op.kind \in {"pasteUrl", "url"} THEN ERR_FETCH ELSE ERR_READ

\* PromptOutput.tsx:208-218: the fetch answers; a good answer goes on to
\* processFile, any other throws
FetchDone ==
  \E op \in Pending, response \in Responses :
    /\ op.kind \in IngestKinds
    /\ op.phase = "fetch"
    /\ IF responseAccepted(response)
       THEN /\ tabs' = onTabContentStateChange(tabs, op.tab, handleSetError(NoError))
            /\ ops' = Without(op) (+) SetToBag({[op EXCEPT !.phase = "read"]})
            /\ UNCHANGED uploader
       ELSE /\ tabs' = onTabContentStateChange(tabs, op.tab, handleSetError(IngestError(op)))
            /\ ops' = Without(op)
            /\ uploader' = IngestEnded(uploader, op, FALSE)
    /\ last' = [op |-> "FetchDone", tab |-> op.tab,
                arg |-> IF responseAccepted(response) THEN "ok" ELSE "fail",
                resp |-> response, partial |-> NoPartial, sent |-> Null]
    /\ StoreOnly
    /\ UNCHANGED cropper

\* PromptOutput.tsx:159-170: the FileReader ends
ReadDone ==
  \E op \in Pending, ok \in BOOLEAN :
    /\ op.kind \in IngestKinds
    /\ op.phase = "read"
    /\ tabs' = onTabContentStateChange(tabs, op.tab,
                 IF ok THEN handleImageUpload(op.img) ELSE handleSetError(IngestError(op)))
    /\ ops' = Without(op)
    /\ uploader' = IngestEnded(uploader, op, ok)
    /\ Did("ReadDone", op.tab, IF ok THEN "ok" ELSE "fail")
    /\ StoreOnly
    /\ UNCHANGED cropper

\* PromptOutput.tsx:289-296 (button 342-345, disabled while analysing)
handleDeleteImageAndResetInput ==
  /\ cur # NoTab
  /\ cs.uploadedImage # Null
  /\ ~cs.isLoading
  /\ tabs' = onTabContentStateChange(tabs, cur, handleDeleteImage)
  /\ uploader' = [uploader EXCEPT !.showCropper = FALSE, !.imageToCropUrl = Null]
  /\ cropper' = InitCropper
  /\ ops' = Unmodalled(ops)
  /\ Did("handleDeleteImage", cur, "")
  /\ StoreOnly

\* PromptOutput.tsx:298-305 (button 331-333, disabled while analysing); a
\* new imageSrc resets the rectangle of a mounted modal (part_002:95-103)
handleOpenCropper ==
  /\ cur # NoTab
  /\ cs.uploadedImage # Null
  /\ ~cs.isLoading
  /\ uploader' = [uploader EXCEPT !.imageToCropUrl = cs.uploadedImage, !.showCropper = TRUE]
  /\ tabs' = onTabContentStateChange(tabs, cur, handleSetError(NoError))
  /\ cropper' = IF ModalOpen(uploader) /\ uploader.imageToCropUrl # cs.uploadedImage
                THEN [cropper EXCEPT !.croppedAreaPixels = "null"]
                ELSE cropper
  /\ Did("handleOpenCropper", cur, "")
  /\ StoreOnly
  /\ UNCHANGED ops

\* PromptOutput.tsx:313-317, the close button of part_002:161-165
handleCropperClose ==
  /\ cur # NoTab
  /\ ModalOpen(uploader)
  /\ uploader' = [uploader EXCEPT !.showCropper = FALSE, !.imageToCropUrl = Null]
  /\ tabs' = onTabContentStateChange(tabs, cur, handleSetError(NoError))
  /\ cropper' = InitCropper
  /\ ops' = Unmodalled(ops)
  /\ Did("handleCropperClose", cur, "")
  /\ StoreOnly

(***************************************************************************)
(* ImageCropperModal (unnamed/part_002).                                   *)
(***************************************************************************)
\* part_002:118-125
onCropAreaChange ==
  \E area \in CropAreas :
    /\ cur # NoTab
    /\ ModalOpen(uploader)
    /\ cropper' = [cropper EXCEPT !.croppedAreaPixels = area]
    /\ Did("onCropAreaChange", cur, "")
    /\ StoreOnly
    /\ UNCHANGED <<tabs, uploader, ops>>

\* a plausible slip: only a missing rectangle tested
cropSelectionMissing(area) == area = "null"
\* part_002:128: no rectangle, or one of zero width or height
cropSelectionEmpty(area) == area \in {"null", "zero"}

\* part_002:127-135: handleCropClick up to the await (button disabled while
\* cropping, part_002:286-288)
handleCropClick ==
  /\ cur # NoTab
  /\ ModalOpen(uploader)
  /\ ~cropper.isCropping
  /\ IF cropSelectionEmpty(cropper.croppedAreaPixels)
     THEN /\ tabs' = onTabContentStateChange(tabs, cur, handleSetError(ERR_CROP_EMPTY))
          /\ UNCHANGED <<cropper, ops>>
     ELSE /\ HasRoom
          /\ cropper' = [cropper EXCEPT !.isCropping = TRUE]
          /\ tabs' = onTabContentStateChange(tabs, cur, handleSetError(NoError))
          /\ ops' = With(Op("crop", cur, "run", uploader.imageToCropUrl, TRUE, TRUE))
  /\ Did("handleCropClick", cur, "")
  /\ StoreOnly
  /\ UNCHANGED uploader

\* a plausible slip: the modal left open after the image was handed back
cropperShownAfterCrop(u) == u
\* PromptOutput.tsx:309-310 and 314-315: what handleCropComplete and
\* handleCropperClose leave of the uploader's state
cropperHidden(u) == [u EXCEPT !.showCropper = FALSE, !.imageToCropUrl = Null]

\* part_002:135-143: getCroppedImg resolves (onCropComplete, onClose) or
\* throws; handleCropComplete is PromptOutput.tsx:307-311
CropDone ==
  \E op \in Pending, ok \in BOOLEAN :
    /\ op.kind = "crop"
    /\ IF ok
       THEN /\ tabs' = onTabContentStateChange(
                         onTabContentStateChange(tabs, op.tab, handleImageUpload(CroppedImage)),
                         op.tab, handleSetError(NoError))
            /\ IF op.up
               THEN /\ uploader' = cropperHidden(uploader)
                    /\ cropper' = InitCropper
                    /\ ops' = Unmodalled(Without(op))
               ELSE /\ ops' = Without(op)
                    /\ UNCHANGED <<uploader, cropper>>
       ELSE /\ tabs' = onTabContentStateChange(tabs, op.tab, handleSetError(ERR_CROP_FAILED))
            /\ cropper' = IF op.modal THEN [cropper EXCEPT !.isCropping = FALSE] ELSE cropper
            /\ ops' = Without(op)
            /\ UNCHANGED uploader
    /\ Did("CropDone", op.tab,
           IF op.modal THEN (IF ok THEN "ok" ELSE "fail")
           ELSE (IF ok THEN "okClosed" ELSE "failClosed"))
    /\ StoreOnly

(***************************************************************************)
(* The whole application.                                                  *)
(***************************************************************************)
Next ==
  \/ MountEffect
  \/ AddTabClick
  \/ DeleteTabClick
  \/ SetActiveTab
  \/ handleRenameSubmit
  \/ handleDragStart
  \/ handleDrop
  \/ handleOptionChange
  \/ handleOtherAnalysisTextChange
  \/ AnalyzeClick
  \/ handleRefineDetailRequest
  \/ AnalyzeDone
  \/ handleFileChange
  \/ handlePaste
  \/ UrlInputChange
  \/ UrlLoadClick
  \/ FetchDone
  \/ ReadDone
  \/ handleDeleteImageAndResetInput
  \/ handleOpenCropper
  \/ handleCropperClose
  \/ onCropAreaChange
  \/ handleCropClick
  \/ CropDone

Spec == Init /\ [][Next]_vars


(***************************************************************************)
(* Parts of the application, each small enough to explore exhaustively.    *)
(* Every part starts from Init and takes a subset of the actions of Next.  *)
(***************************************************************************)
\* the session store and the tab strip; the option selector makes the
\* sessions' content differ
NextStore ==
  \/ MountEffect
  \/ AddTabClick
  \/ DeleteTabClick
  \/ SetActiveTab
  \/ handleDragStart
  \/ handleDrop
  \/ handleOptionChange

SpecStore == Init /\ [][NextStore]_vars

\* one session's panel: intake by file and paste, cropping, analysis
NextPanel ==
  \/ MountEffect
  \/ handleOptionChange
  \/ handleOtherAnalysisTextChange
  \/ AnalyzeClick
  \/ handleRefineDetailRequest
  \/ AnalyzeDone
  \/ handleFileChange
  \/ handlePaste
  \/ FetchDone
  \/ ReadDone
  \/ handleDeleteImageAndResetInput
  \/ handleOpenCropper
  \/ handleCropperClose
  \/ onCropAreaChange
  \/ handleCropClick
  \/ CropDone

SpecPanel == Init /\ [][NextPanel]_vars

\* handleAnalyze called whatever its buttons show: the analyze button is
\* disabled without an image (part_001:33) and the detail button needs a
\* result, so only a direct call reaches the checks of TabContent.tsx:32-41
\* in every session state
AnalyzeDirect ==
  \E isDetailedRequest \in BOOLEAN :
    /\ cur # NoTab
    /\ handleAnalyze(isDetailedRequest)

NextHandler ==
  \/ MountEffect
  \/ handleOptionChange
  \/ handleOtherAnalysisTextChange
  \/ AnalyzeClick
  \/ handleRefineDetailRequest
  \/ AnalyzeDirect
  \/ AnalyzeDone
  \/ handleFileChange
  \/ ReadDone
  \/ handleDeleteImageAndResetInput

SpecHandler == Init /\ [][NextHandler]_vars

\* image intake across tab changes
NextIntake ==
  \/ MountEffect
  \/ AddTabClick
  \/ SetActiveTab
  \/ handleFileChange
  \/ handlePaste
  \/ UrlInputChange
  \/ UrlLoadClick
  \/ FetchDone
  \/ ReadDone
  \/ handleDeleteImageAndResetInput

SpecIntake == Init /\ [][NextIntake]_vars

\* renameTab called with any name: the rename box passes on only names that
\* are not blank (part_000:52), so only a direct call gives the store a
\* blank one
RenameDirect ==
  \E id \in TabIdsOf(tabs), newName \in NameTexts :
    /\ tabs' = renameTab(tabs, id, newName)
    /\ Did("renameTab", id, newName)
    /\ UNCHANGED <<activeTabId, nextId, mounted, draggingTabId, uploader, cropper, ops>>

\* the tab strip with its rename box, and the store's rename
NextRename ==
  \/ MountEffect
  \/ AddTabClick
  \/ SetActiveTab
  \/ handleRenameSubmit
  \/ RenameDirect
  \/ handleOptionChange

SpecRename == Init /\ [][NextRename]_vars

\* partial states onTabContentStateChange is called with (TabContent.tsx:20,
\* 24, 44, 48)
Partials ==
  {[uploadedImage |-> 1, rawAnalysisResult |-> Null, error |-> NoError],
   [selectedOptions |-> <<OPT_OTHER>>],
   [isLoading |-> TRUE, error |-> ERR_ANALYSIS, rawAnalysisResult |-> Null],
   [rawAnalysisResult |-> 1, error |-> NoError]}

\* onTabContentStateChange called with any tab id, one in the list or not,
\* and any of the partial states
ContentUpdate ==
  \E tabId \in TabIds, newState \in Partials :
    /\ mounted
    /\ tabs' = onTabContentStateChange(tabs, tabId, newState)
    /\ last' = [op |-> "onTabContentStateChange", tab |-> tabId, arg |-> "",
                resp |-> NoResponse, partial |-> newState, sent |-> Null]
    /\ UNCHANGED <<activeTabId, nextId, mounted, draggingTabId, uploader, cropper, ops>>

\* the store under content updates
NextUpdate ==
  \/ MountEffect
  \/ AddTabClick
  \/ ContentUpdate

SpecUpdate == Init /\ [][NextUpdate]_vars

(***************************************************************************)
(* The prompt formatter, generateFullRefinePrompt (PromptOutput.tsx:14-78). *)
(* A string is the sequence of its pieces: a prefix, a description's text,  *)
(* a space and the separator are one piece each, so that join and trim are  *)
(* computed.  An analysis result gives every field a string, or Missing     *)
(* where the field is absent.                                               *)
(***************************************************************************)
CHARACTER_POSE == "CHARACTER_POSE"
CHARACTER_EXPRESSION == "CHARACTER_EXPRESSION"
PHOTO_BACKGROUND == "PHOTO_BACKGROUND"
CAMERA_ANGLE == "CAMERA_ANGLE"
\* types.ts:1-8, in the order of the enum
AllOptions ==
  <<CHARACTER_ATTIRE, CHARACTER_POSE, CHARACTER_EXPRESSION, PHOTO_BACKGROUND,
    CAMERA_ANGLE, OPT_OTHER>>
\* PromptOutput.tsx:61: the five standard attributes
StandardOptions ==
  <<CHARACTER_ATTIRE, CHARACTER_POSE, CHARACTER_EXPRESSION, PHOTO_BACKGROUND,
    CAMERA_ANGLE>>
\* types.ts:10-17: the field of the result that describes an option
FieldOf(option) ==
  CASE option = CHARACTER_ATTIRE -> "characterAttire"
    [] option = CHARACTER_POSE -> "characterPose"
    [] option = CHARACTER_EXPRESSION -> "characterExpression"
    [] option = PHOTO_BACKGROUND -> "photoBackground"
    [] option = CAMERA_ANGLE -> "cameraAngle"
    [] option = OPT_OTHER -> "otherAnalysis"
ResultFields == {FieldOf(AllOptions[i]) : i \in 1..Len(AllOptions)}

Space == " "
\* the full-width period of PromptOutput.tsx:76
Separator == "."
GENERIC_PREFIX == "GENERIC_PREFIX"
\* PromptOutput.tsx:28-50: the prefix of a single option
PrefixOf(option) ==
  CASE option = CHARACTER_ATTIRE -> "ATTIRE_PREFIX"
    [] option = CHARACTER_POSE -> "POSE_PREFIX"
    [] option = CHARACTER_EXPRESSION -> "EXPRESSION_PREFIX"
    [] option = PHOTO_BACKGROUND -> "BACKGROUND_PREFIX"
    [] option = CAMERA_ANGLE -> "CAMERA_ANGLE_PREFIX"
    [] OTHER -> GENERIC_PREFIX

\* a field the result does not have
Missing == <<"undefined">>
\* the strings a field is given: absent or a text for every field; the
\* empty string for two of them; a text between spaces and a string of one
\* space for the first
Descriptions(field) ==
  {Missing, <<field>>}
    \cup (IF field \in {"characterAttire", "characterPose"} THEN {<<>>} ELSE {})
    \cup (IF field = "characterAttire"
          THEN {<<Space, field, Space>>, <<Space>>}
          ELSE {})
AnalysisResults ==
  [characterAttire : Descriptions("characterAttire"),
   characterPose : Descriptions("characterPose"),
   characterExpression : Descriptions("characterExpression"),
   photoBackground : Descriptions("photoBackground"),
   cameraAngle : Descriptions("cameraAngle"),
   otherAnalysis : Descriptions("otherAnalysis")]

\* selections: up to MaxSelected different options in any order
RECURSIVE SelectionsOf(_)
SelectionsOf(n) ==
  IF n = 0 THEN {<<>>}
  ELSE LET shorter == SelectionsOf(n - 1) IN
       shorter \cup
       {Append(s, AllOptions[i]) :
          s \in {t \in shorter : Len(t) = n - 1}, i \in 1..Len(AllOptions)}
Selections ==
  {s \in SelectionsOf(MaxSelected) : \A i, j \in 1..Len(s) : i # j => s[i] # s[j]}

\* JavaScript truthiness of a field: present and not the empty string
Truthy(description) == description # Missing /\ description # <<>>

\* a plausible slip: the separator written after every part
RECURSIVE JoinAfterEach(_, _)
JoinAfterEach(parts, sep) ==
  IF Len(parts) = 0 THEN <<>>
  ELSE parts[1] \o <<sep>> \o JoinAfterEach(Tail(parts), sep)

\* Array.prototype.join
RECURSIVE Join(_, _)
Join(parts, sep) ==
  IF Len(parts) = 0 THEN <<>>
  ELSE IF Len(parts) = 1 THEN parts[1]
  ELSE parts[1] \o <<sep>> \o Join(Tail(parts), sep)

\* String.prototype.trim on a string of pieces
RECURSIVE TrimStart(_)
TrimStart(s) == IF Len(s) > 0 /\ s[1] = Space THEN TrimStart(Tail(s)) ELSE s
RECURSIVE TrimEnd(_)
TrimEnd(s) ==
  IF Len(s) > 0 /\ s[Len(s)] = Space THEN TrimEnd(SubSeq(s, 1, Len(s) - 1)) ELSE s
TrimString(s) == TrimEnd(TrimStart(s))

\* if (analysisData.field) descriptionParts.push(analysisData.field)
Pushed(analysisData, option) ==
  IF Truthy(analysisData[FieldOf(option)])
  THEN <<analysisData[FieldOf(option)]>>
  ELSE <<>>

\* a plausible slip: the parts pushed in the order of the selection
PartsInSelectionOrder(analysisData, optionsToConsider) ==
  LET RECURSIVE Walk(_)
      Walk(i) == IF i > Len(optionsToConsider) THEN <<>>
                 ELSE Pushed(analysisData, optionsToConsider[i]) \o Walk(i + 1)
  IN Walk(1)
\* PromptOutput.tsx:65-72: one test per option, in the order of the code
PartsInFixedOrder(analysisData, optionsToConsider) ==
  LET RECURSIVE Walk(_)
      Walk(i) == IF i > Len(AllOptions) THEN <<>>
                 ELSE (IF Includes(optionsToConsider, AllOptions[i])
                       THEN Pushed(analysisData, AllOptions[i])
                       ELSE <<>>) \o Walk(i + 1)
  IN Walk(1)

\* a plausible slip: the default of no selection takes every option
optionsToConsiderWithOther(options) ==
  IF Len(options) = 0 THEN AllOptions ELSE options
\* PromptOutput.tsx:60-62
optionsToConsider(options) ==
  IF Len(options) = 0 THEN StandardOptions ELSE options

\* a plausible slip: a single option formatted like several
isSingleOptionSelectedNever(options) == FALSE
\* PromptOutput.tsx:20
isSingleOptionSelected(options) == Len(options) = 1 /\ options[1] # OPT_OTHER
\* PromptOutput.tsx:21
isOtherSelectedAlone(options) == Len(options) = 1 /\ options[1] = OPT_OTHER

\* PromptOutput.tsx:17-77, for a result that is not null
generateFullRefinePrompt(analysisData, options) ==
  LET prefix == IF isSingleOptionSelected(options)
                THEN PrefixOf(options[1])
                ELSE GENERIC_PREFIX
      descriptionParts ==
        IF isSingleOptionSelected(options)
        THEN Pushed(analysisData, options[1])
        ELSE IF isOtherSelectedAlone(options)
        THEN Pushed(analysisData, OPT_OTHER)
        ELSE PartsInFixedOrder(analysisData, optionsToConsider(options))
      combinedDescription ==
        Join(SelectSeq(descriptionParts, LAMBDA part : part # <<>>), Separator)
  IN <<prefix>> \o <<Space>> \o TrimString(combinedDescription)

\* PromptOutput.tsx:80-91: what the output box shows in a session that
\* holds a structured result
promptShown(c) ==
  IF c.isLoading THEN <<"LOADING_TEXT">>
  ELSE IF c.error # NoError THEN <<"ERROR_TEXT", c.error>>
  ELSE generateFullRefinePrompt(c.rawAnalysisResult, c.selectedOptions)
\* the output box of the current tab
displayPromptContent == promptShown(cs)

\* a session that holds a structured result and a selection
InitFormatter ==
  \E analysisData \in AnalysisResults, options \in Selections :
    /\ tabs = <<[createNewTab(TabName(1), 1) EXCEPT
                   !.contentState.uploadedImage = 1,
                   !.contentState.rawAnalysisResult = analysisData,
                   !.contentState.selectedOptions = options]>>
    /\ activeTabId = 1
    /\ nextId = 2
    /\ mounted = TRUE
    /\ draggingTabId = Null
    /\ uploader = InitUploader
    /\ cropper = InitCropper
    /\ ops = EmptyBag
    /\ last = [op |-> "init", tab |-> NoTab, arg |-> "", resp |-> NoResponse,
               partial |-> NoPartial, sent |-> Null]

\* part_001:28-31: one option of the selector is selected or deselected
OptionToggle ==
  \E i \in 1..Len(AllOptions) :
    LET option == AllOptions[i]
        options == IF Includes(cs.selectedOptions, option)
                   THEN SelectSeq(cs.selectedOptions, LAMBDA o : o # option)
                   ELSE Append(cs.selectedOptions, option) IN
    /\ ~isOptionSelectDisabled
    /\ Len(options) <= MaxSelected
    /\ tabs' = onTabContentStateChange(tabs, cur, optionChange(options))
    /\ Did("handleOptionChange", cur, "")
    /\ StoreOnly
    /\ UNCHANGED <<uploader, cropper, ops>>

\* TabContent.tsx:48: an analysis returns a result that differs from the
\* held one in one field
ResultArrives ==
  \E field \in ResultFields :
    \E description \in Descriptions(field) :
      /\ tabs' = onTabContentStateChange(tabs, cur,
                   analyzeSucceeded([cs.rawAnalysisResult EXCEPT ![field] = description]))
      /\ Did("ResultArrives", cur, "")
      /\ StoreOnly
      /\ UNCHANGED <<uploader, cropper, ops>>

\* the results whose descriptions have no space around them
PlainResults ==
  {r \in AnalysisResults : r.characterAttire \in {Missing, <<>>, <<"characterAttire">>}}

\* a session that holds a structured result and a selection, without an
\* error or with the error of a refused detailed re-analysis
InitSelection ==
  \E analysisData \in PlainResults, options \in Selections,
     error \in {NoError, ERR_OTHER_BLANK} :
    /\ tabs = <<[createNewTab(TabName(1), 1) EXCEPT
                   !.contentState.uploadedImage = 1,
                   !.contentState.rawAnalysisResult = analysisData,
                   !.contentState.selectedOptions = options,
                   !.contentState.error = error]>>
    /\ activeTabId = 1
    /\ nextId = 2
    /\ mounted = TRUE
    /\ draggingTabId = Null
    /\ uploader = InitUploader
    /\ cropper = InitCropper
    /\ ops = EmptyBag
    /\ last = [op |-> "init", tab |-> NoTab, arg |-> "", resp |-> NoResponse,
               partial |-> NoPartial, sent |-> Null]

\* the option selector and the free-text input of a session with a result
NextSelection ==
  \/ OptionToggle
  \/ handleOptionChange
  \/ handleOtherAnalysisTextChange

SpecSelection == InitSelection /\ [][NextSelection]_vars

NextFormatter ==
  \/ OptionToggle
  \/ ResultArrives

SpecFormatter == InitFormatter /\ [][NextFormatter]_vars

\* one session's image and its cropping tool, with analysis
NextCrop ==
  \/ MountEffect
  \/ AnalyzeClick
  \/ handleRefineDetailRequest
  \/ AnalyzeDone
  \/ handleFileChange
  \/ ReadDone
  \/ handleDeleteImageAndResetInput
  \/ handleOpenCropper
  \/ handleCropperClose
  \/ onCropAreaChange
  \/ handleCropClick
  \/ CropDone

SpecCrop == Init /\ [][NextCrop]_vars

\* sessions that are deleted while their file read or their analysis is in
\* flight
NextOrphans ==
  \/ MountEffect
  \/ AddTabClick
  \/ DeleteTabClick
  \/ handleFileChange
  \/ ReadDone
  \/ AnalyzeClick
  \/ AnalyzeDone

SpecOrphans == Init /\ [][NextOrphans]_vars

\* handleUrlLoadClick called whatever the URL box shows: its button and its
\* Enter key need a non-blank URL and the box is rendered only without an
\* image, so only a direct call reaches every branch of PromptOutput.tsx:
\* 269-287 in every session state
UrlLoadDirect == handleUrlLoadClick

\* one session's uploader with its analysis: every way an image comes in
NextUploader ==
  \/ MountEffect
  \/ handleOptionChange
  \/ handleOtherAnalysisTextChange
  \/ AnalyzeClick
  \/ AnalyzeDone
  \/ handleFileChange
  \/ handlePaste
  \/ UrlInputChange
  \/ UrlLoadClick
  \/ UrlLoadDirect
  \/ FetchDone
  \/ ReadDone
  \/ handleDeleteImageAndResetInput

SpecUploader == Init /\ [][NextUploader]_vars

\* the uploader of one session, where every fetch and every file read that
\* was started completes
SpecUploaderLive ==
  /\ Init
  /\ [][NextUploader]_vars
  /\ WF_vars(FetchDone)
  /\ WF_vars(ReadDone)

(***************************************************************************)
(* Helpers of the properties.                                              *)
(***************************************************************************)
\* the content state of the tab the last handler ran for
lastCs == TabOf(tabs, last.tab).contentState
lastInList == last.tab \in TabIdsOf(tabs)
\* the ingestions in flight for tab id
IngestsOf(id) ==
  LET mine == {o \in Pending : o.tab = id /\ o.kind \in IngestKinds} IN
  BagCardinality([o \in mine |-> ops[o]])
\* the analyses in flight for tab id
AnalysesOf(id) ==
  LET mine == {o \in Pending : o.tab = id /\ o.kind = "analyze"} IN
  BagCardinality([o \in mine |-> ops[o]])


(***************************************************************************)
(* Properties of the session store.                                        *)
(***************************************************************************)
\* C1: once the mount effect has created the first tab, the session list is
\* never empty: deleting the last remaining session leaves a replacement
C1_ListNeverEmpty == mounted => Len(tabs) >= 1

\* C2: deleting the active session makes the first remaining session the
\* active one, or, when none remains, leaves exactly one new session, which
\* is the active one
C2_DeleteActive ==
  [][(last'.op = "deleteTab" /\ last'.tab = activeTabId) =>
       LET rest == FilterOut(tabs, last'.tab) IN
       IF Len(rest) > 0
       THEN tabs' = rest /\ activeTabId' = rest[1].id
       ELSE /\ Len(tabs') = 1
            /\ tabs'[1].id \notin TabIdsOf(tabs)
            /\ activeTabId' = tabs'[1].id]_vars

\* C3: a reorder is a permutation of the list: the same length, the same
\* ids, every session's name and content state as before, the same active id
C3_ReorderIsPermutation ==
  [][last'.op = "handleDrop" =>
       /\ Len(tabs') = Len(tabs)
       /\ TabIdsOf(tabs') = TabIdsOf(tabs)
       /\ \A id \in TabIdsOf(tabs) : TabOf(tabs', id) = TabOf(tabs, id)
       /\ activeTabId' = activeTabId]_vars

\* C3 witness: a drop has moved a later tab in front of an earlier one, and
\* the sessions differ in content
C3_Witness ==
  /\ last.op = "handleDrop"
  /\ Len(tabs) >= 2
  /\ tabs[1].id > tabs[2].id
  /\ tabs[1].contentState # tabs[2].contentState

(***************************************************************************)
(* Properties of a session's panel.                                        *)
(***************************************************************************)
\* C4: every image upload that lands in a session (a file, a paste, a
\* fetched URL, a committed crop) leaves the session holding the image with
\* its analysis result and its error cleared by the same update, and the
\* deletion of the image leaves image, result and error cleared
C4_UploadClearsResult ==
  /\ (last.op = "ReadDone" /\ last.arg = "ok" /\ lastInList) =>
       /\ lastCs.uploadedImage \in Images
       /\ lastCs.rawAnalysisResult = Null
       /\ lastCs.error = NoError
  /\ (last.op = "CropDone" /\ last.arg \in {"ok", "okClosed"} /\ lastInList) =>
       /\ lastCs.uploadedImage = CroppedImage
       /\ lastCs.rawAnalysisResult = Null
       /\ lastCs.error = NoError
  /\ (last.op = "handleDeleteImage" /\ lastInList) =>
       /\ lastCs.uploadedImage = Null
       /\ lastCs.rawAnalysisResult = Null
       /\ lastCs.error = NoError

\* C4 witness: a committed crop has landed: the session holds the cropped
\* image, no result and no error
C4_Witness ==
  /\ last.op = "CropDone"
  /\ last.arg = "ok"
  /\ lastCs.uploadedImage = CroppedImage
  /\ lastCs.rawAnalysisResult = Null
  /\ lastCs.error = NoError

\* C5: a paste into a session that holds an image is refused: the session
\* gets the error of the refusal, no ingestion starts, and the held image,
\* the stored result and the uploader's flags stay as they were
C5_PasteRefused ==
  [][(last'.op = "handlePaste" /\ cs.uploadedImage # Null) =>
       /\ cs'.error = ERR_PASTE_DUP
       /\ ops' = ops
       /\ uploader' = uploader
       /\ cs'.uploadedImage = cs.uploadedImage
       /\ cs'.rawAnalysisResult = cs.rawAnalysisResult]_vars

\* C5 witness: a paste was refused in a session holding an image and an
\* analysis result
C5_Witness ==
  /\ last.op = "handlePaste"
  /\ last.arg = "imageFile"
  /\ lastCs.uploadedImage # Null
  /\ lastCs.rawAnalysisResult # Null
  /\ lastCs.error = ERR_PASTE_DUP

\* C6: analyze, normal or detailed, with the option "other" selected and a
\* free text that is empty or only white space reports the validation error,
\* calls no analysis, leaves the loading flag false and the result as it was
C6_OtherNeedsText ==
  [][(/\ last'.op = "handleAnalyze"
      /\ Includes(cs.selectedOptions, OPT_OTHER)
      /\ cs.otherAnalysisText \in {"", " "}) =>
       /\ cs'.error = ERR_OTHER_BLANK
       /\ ops' = ops
       /\ ~cs'.isLoading
       /\ cs'.rawAnalysisResult = cs.rawAnalysisResult]_vars

\* C6 witness: the detailed analysis was asked for with "other" selected and
\* a text of white space, in a session that holds a result
C6_Witness ==
  /\ last.op = "handleAnalyze"
  /\ last.arg = "detailed"
  /\ Includes(lastCs.selectedOptions, OPT_OTHER)
  /\ lastCs.otherAnalysisText = " "
  /\ lastCs.error = ERR_OTHER_BLANK
  /\ lastCs.rawAnalysisResult # Null
  /\ ~lastCs.isLoading

\* C7: analyze in a session that holds no image reports the validation
\* error, calls no analysis and does not touch the loading flag
C7_AnalyzeNeedsImage ==
  [][(last'.op = "handleAnalyze" /\ cs.uploadedImage = Null) =>
       /\ cs'.error = ERR_NO_IMAGE
       /\ ops' = ops
       /\ cs'.isLoading = cs.isLoading
       /\ ~cs'.isLoading]_vars

\* C7 witness: handleAnalyze has run in a session without an image whose
\* options would otherwise make a valid request
C7_Witness ==
  /\ last.op = "handleAnalyze"
  /\ lastCs.uploadedImage = Null
  /\ lastCs.error = ERR_NO_IMAGE
  /\ ~Includes(lastCs.selectedOptions, OPT_OTHER)
  /\ ~lastCs.isLoading

\* C8: confirming a crop with no rectangle, or with one of zero width or
\* height, reports the validation error, leaves the modal open and the held
\* image as it was, and starts no crop
C8_EmptyCropRefused ==
  [][(last'.op = "handleCropClick" /\ cropper.croppedAreaPixels \in {"null", "zero"}) =>
       /\ cs'.error = ERR_CROP_EMPTY
       /\ ModalOpen(uploader')
       /\ uploader' = uploader
       /\ cs'.uploadedImage = cs.uploadedImage
       /\ ops' = ops]_vars

\* C8 witness: a crop was confirmed with a rectangle of zero area
C8_Witness ==
  /\ last.op = "handleCropClick"
  /\ cropper.croppedAreaPixels = "zero"
  /\ ModalOpen(uploader)
  /\ lastCs.error = ERR_CROP_EMPTY
  /\ lastCs.uploadedImage # Null

\* C9: once the cropping tool has been closed, the crop it was producing
\* never changes the image the session holds, whether it succeeds or fails
C9_ClosedCropLeavesImage ==
  [][(/\ last'.op = "CropDone"
      /\ last'.arg \in {"okClosed", "failClosed"}
      /\ last'.tab \in TabIdsOf(tabs)
      /\ TabOf(tabs, last'.tab).contentState.uploadedImage # Null) =>
       TabOf(tabs', last'.tab).contentState.uploadedImage =
         TabOf(tabs, last'.tab).contentState.uploadedImage]_vars

\* C10: at most one ingestion (file read, paste, URL fetch) is in flight
\* for a session in every reachable state
C10_OneIngestionPerSession ==
  \A id \in TabIdsOf(tabs) : IngestsOf(id) <= 1

(***************************************************************************)
(* Properties of the analysis.                                             *)
(***************************************************************************)
\* C11: while the loading flag of the session on screen is true its analyze
\* button, its detailed re-analysis button and its option selector are
\* disabled, and no session ever has more than one analysis in flight
C11_AnalysisGated ==
  /\ (cur # NoTab /\ cs.isLoading) =>
       /\ isAnalyzeButtonDisabled
       /\ ~showActionButtons
       /\ isOptionSelectDisabled
  /\ \A id \in TabIdsOf(tabs) : AnalysesOf(id) <= 1

\* C11 witness: the detailed re-analysis of the session on screen is in
\* flight, alone, with the session's controls disabled
C11_Witness ==
  /\ cur # NoTab
  /\ cs.isLoading
  /\ AnalysesOf(cur) = 1
  /\ \E o \in Pending : o.kind = "analyze" /\ o.tab = cur /\ o.phase = "detailed"
  /\ isAnalyzeButtonDisabled
  /\ isOptionSelectDisabled

\* C12: when an analysis returns, the loading flag of its session is false
\* and the analyze button of a session on screen is enabled again; a
\* failure leaves its message as the session's error and no result, a
\* success leaves the result and no error
C12_AnalysisSettles ==
  (last.op = "AnalyzeDone" /\ lastInList) =>
    /\ ~lastCs.isLoading
    /\ (cur = last.tab) => ~isAnalyzeButtonDisabled
    /\ (last.arg = "fail") =>
         /\ lastCs.error = ERR_ANALYSIS
         /\ lastCs.rawAnalysisResult = Null
    /\ (last.arg = "ok") =>
         /\ lastCs.error = NoError
         /\ lastCs.rawAnalysisResult \in Results

\* C12 witness: an analysis has failed: the session shows the failure, holds
\* no result, is not loading, and its analyze button is enabled
C12_Witness ==
  /\ last.op = "AnalyzeDone"
  /\ last.arg = "fail"
  /\ cur = last.tab
  /\ cs.error = ERR_ANALYSIS
  /\ cs.rawAnalysisResult = Null
  /\ ~cs.isLoading
  /\ ~isAnalyzeButtonDisabled

(***************************************************************************)
(* Properties of the image intake.                                         *)
(***************************************************************************)
\* the messages an ingestion failure can surface
IngestErrors ==
  {ERR_READ, ERR_FETCH, ERR_CLIP_FILE, ERR_CLIP_NONE, ERR_URL_BLANK, ERR_URL_INVALID}

\* the step is an ingestion failing: a fetch or a file read that fails, a
\* paste that carries no usable image, a URL that is blank or invalid
IngestFailureStep ==
  \/ last'.op \in {"FetchDone", "ReadDone"} /\ last'.arg = "fail"
  \/ last'.op = "handlePaste" /\ last'.arg \in {"noFile", "text"} /\ ~pasteRefused
  \/ last'.op = "handleUrlLoadClick" /\ ~isValidImageUrl(Trim(uploader.urlInput))

\* C13: an ingestion failure leaves one of the failure messages as the
\* session's error and changes nothing else: the held image, the analysis
\* result, the selected options, the free text and the loading flag of the
\* session, and every other session, are as before the step
C13_IngestFailureKeepsState ==
  [][(IngestFailureStep /\ last'.tab \in TabIdsOf(tabs)) =>
       LET before == TabOf(tabs, last'.tab).contentState
           after == TabOf(tabs', last'.tab).contentState IN
       /\ after.error \in IngestErrors
       /\ after = [before EXCEPT !.error = after.error]
       /\ tabs' = onTabContentStateChange(tabs, last'.tab, [error |-> after.error])]_vars

\* C13 witness: a fetch has failed in a session that holds an image, an
\* analysis result, a selected option and a free text
C13_Witness ==
  /\ last.op = "FetchDone"
  /\ last.arg = "fail"
  /\ lastCs.error = ERR_FETCH
  /\ lastCs.uploadedImage # Null
  /\ lastCs.rawAnalysisResult # Null
  /\ lastCs.selectedOptions = <<OPT_OTHER>>
  /\ lastCs.otherAnalysisText = "x"

\* the operations in flight after the step that were not before it
Started == BagToSet(ops' (-) ops)

\* C14: a fetch is started only for a URL that passed validation; its
\* answer goes on to be read as an image only if the fetch did not throw,
\* the status was successful and the content type starts with image/, and
\* every other answer leaves the failure as the session's error, ends the
\* ingestion and sets no image; an image is set only by a read that ends
C14_UrlImageAccepted ==
  [][/\ \A o \in Started : (o.phase = "fetch") =>
          \/ last'.op = "handleUrlLoadClick" /\ isValidImageUrl(Trim(uploader.urlInput))
          \/ last'.op = "handlePaste" /\ last'.arg = "url"
     /\ \A o \in Started : (o.kind \in {"url", "pasteUrl"} /\ o.phase = "read") =>
          /\ last'.op = "FetchDone"
          /\ ~last'.resp.thrown
          /\ last'.resp.ok
          /\ last'.resp.contentType # <<>>
          /\ last'.resp.contentType[1] = "image/"
     /\ (/\ last'.op = "FetchDone"
         /\ last'.tab \in TabIdsOf(tabs)
         /\ \/ last'.resp.thrown
            \/ ~last'.resp.ok
            \/ last'.resp.contentType = <<>>
            \/ last'.resp.contentType[1] # "image/") =>
          /\ TabOf(tabs', last'.tab).contentState.error = ERR_FETCH
          /\ TabOf(tabs', last'.tab).contentState.uploadedImage =
               TabOf(tabs, last'.tab).contentState.uploadedImage
          /\ Started = {}
          /\ BagCardinality(ops') = BagCardinality(ops) - 1
     /\ \A id \in TabIdsOf(tabs) :
          (/\ TabOf(tabs', id).contentState.uploadedImage #
                TabOf(tabs, id).contentState.uploadedImage
           /\ TabOf(tabs', id).contentState.uploadedImage # Null) =>
            /\ last'.op = "ReadDone"
            /\ last'.arg = "ok"
            /\ \E o \in Pending : o.phase = "read" /\ o.tab = id /\ ops' = Without(o)]_vars

\* C14 witness: a fetch answered with a successful status and a content
\* type that names image/ but does not start with it; the session shows the
\* failure and holds no image
C14_Witness ==
  /\ last.op = "FetchDone"
  /\ ~last.resp.thrown
  /\ last.resp.ok
  /\ last.resp.contentType = <<"x-", "image/">>
  /\ lastCs.error = ERR_FETCH
  /\ lastCs.uploadedImage = Null
  /\ ~uploader.isUrlLoading

(***************************************************************************)
(* Properties of the store's updates.                                      *)
(***************************************************************************)
\* C15 as stated: the store's rename with a blank name changes nothing
C15_StoreRenameBlankNoOp ==
  [][(last'.op = "renameTab" /\ last'.arg \in {"", " "}) =>
       UNCHANGED <<tabs, activeTabId>>]_vars

\* C15: a rename submitted from the rename box of a tab with a name that is
\* empty or only white space does not reach the store: the name of the
\* session and the rest of the store are unchanged
C15_BlankRenameSubmitNoOp ==
  [][(last'.op = "handleRenameSubmit" /\ last'.arg \in {"", " "}) =>
       UNCHANGED <<tabs, activeTabId, nextId>>]_vars

\* C15 witness: a name of white space was submitted for a session that had
\* been renamed, and the session keeps its name
C15_Witness ==
  /\ last.op = "handleRenameSubmit"
  /\ last.arg = " "
  /\ lastInList
  /\ TabOf(tabs, last.tab).name = "x"

\* C16: a content update for session id replaces in that session's content
\* state exactly the fields of the partial state and keeps its other
\* fields, its id and its name; every other session, the order of the tabs
\* and the active id are unchanged
C16_ShallowMerge ==
  [][last'.op = "onTabContentStateChange" =>
       /\ Len(tabs') = Len(tabs)
       /\ activeTabId' = activeTabId
       /\ \A i \in 1..Len(tabs) :
            IF tabs[i].id = last'.tab
            THEN /\ tabs'[i].id = tabs[i].id
                 /\ tabs'[i].name = tabs[i].name
                 /\ DOMAIN tabs'[i].contentState = DOMAIN tabs[i].contentState
                 /\ \A f \in DOMAIN tabs[i].contentState :
                      tabs'[i].contentState[f] =
                        IF f \in DOMAIN last'.partial
                        THEN last'.partial[f]
                        ELSE tabs[i].contentState[f]
            ELSE tabs'[i] = tabs[i]]_vars

\* C16 witness: the result of an analysis was merged into the first of two
\* sessions, which keeps its image and its options; the second session,
\* the active one, has content of its own
C16_Witness ==
  /\ last.op = "onTabContentStateChange"
  /\ last.partial = [rawAnalysisResult |-> 1, error |-> NoError]
  /\ Len(tabs) = 2
  /\ last.tab = tabs[1].id
  /\ activeTabId = tabs[2].id
  /\ tabs[1].contentState.rawAnalysisResult = 1
  /\ tabs[1].contentState.uploadedImage = 1
  /\ tabs[1].contentState.selectedOptions = <<OPT_OTHER>>
  /\ tabs[2].contentState.rawAnalysisResult = Null
  /\ tabs[2].contentState.isLoading
  /\ tabs[2].contentState.error = ERR_ANALYSIS

\* the part of a prompt after its prefix and the space that follows it
BodyOf(prompt) == SubSeq(prompt, 3, Len(prompt))

\* C17: with exactly one option selected, the prompt is the prefix of that
\* option (a different one for each of the five standard attributes, the
\* generic one for 'other'), one space, and the description of that option
\* in the result and of no other field; the description is shown as it is
\* when it has no space around it, and without the spaces around it
\* otherwise
C17_SingleOption ==
  Len(cs.selectedOptions) = 1 =>
    LET option == cs.selectedOptions[1]
        description == cs.rawAnalysisResult[FieldOf(option)]
        prompt == displayPromptContent IN
    /\ prompt[1] = PrefixOf(option)
    /\ (prompt[1] = GENERIC_PREFIX) = (option = OPT_OTHER)
    /\ \A i \in 1..Len(StandardOptions) :
         (prompt[1] = PrefixOf(StandardOptions[i])) = (option = StandardOptions[i])
    /\ prompt[2] = Space
    /\ Truthy(description) /\ TrimString(description) = description =>
         prompt = <<PrefixOf(option), Space>> \o description
    /\ Truthy(description) => BodyOf(prompt) = TrimString(description)

\* C17 witness: attire alone was selected for a result that describes the
\* attire and the pose; the prompt is the attire prefix, a space and the
\* description of the attire
C17_Witness ==
  /\ last.op = "handleOptionChange"
  /\ cs.selectedOptions = <<CHARACTER_ATTIRE>>
  /\ cs.rawAnalysisResult["characterAttire"] = <<"characterAttire">>
  /\ cs.rawAnalysisResult["characterPose"] = <<"characterPose">>
  /\ displayPromptContent = <<"ATTIRE_PREFIX", Space, "characterAttire">>

\* the descriptions a result has for the options of a sequence, in the
\* order of the sequence
PresentOf(analysisData, options) ==
  SelectSeq([i \in 1..Len(options) |-> analysisData[FieldOf(options[i])]], Truthy)
\* no description of the result begins or ends with a space
Unpadded(analysisData) ==
  \A field \in ResultFields : TrimString(analysisData[field]) = analysisData[field]

\* C18: with no option selected, the prompt is the generic prefix, one
\* space, and the descriptions the result has for the five standard
\* attributes, in their order, with the separator between them; the
\* description of 'other' is not in it even when the result has one
C18_NoOption ==
  Len(cs.selectedOptions) = 0 =>
    LET prompt == displayPromptContent
        present == PresentOf(cs.rawAnalysisResult, StandardOptions) IN
    /\ prompt[1] = GENERIC_PREFIX
    /\ prompt[2] = Space
    /\ BodyOf(prompt) = TrimString(Join(present, Separator))
    /\ Unpadded(cs.rawAnalysisResult) => BodyOf(prompt) = Join(present, Separator)
    /\ \A i \in 1..Len(prompt) : prompt[i] # "otherAnalysis"

\* C18 witness: nothing is selected and the result describes attire,
\* background, camera angle and 'other', has an empty pose and no
\* expression; the prompt shows the three standard descriptions
C18_Witness ==
  /\ last.op = "ResultArrives"
  /\ cs.selectedOptions = <<>>
  /\ cs.rawAnalysisResult =
       [characterAttire |-> <<"characterAttire">>,
        characterPose |-> <<>>,
        characterExpression |-> Missing,
        photoBackground |-> <<"photoBackground">>,
        cameraAngle |-> <<"cameraAngle">>,
        otherAnalysis |-> <<"otherAnalysis">>]
  /\ displayPromptContent =
       <<GENERIC_PREFIX, Space, "characterAttire", Separator,
         "photoBackground", Separator, "cameraAngle">>

\* the options of a selection in the order attire, pose, expression,
\* background, camera angle, other
InFixedOrder(options) == SelectSeq(AllOptions, LAMBDA option : Includes(options, option))
\* two selections of the same options
SameOptions(s, t) ==
  {s[i] : i \in 1..Len(s)} = {t[i] : i \in 1..Len(t)}

\* C19: with more than one option selected, the prompt is the generic
\* prefix, one space, and the descriptions the result has for exactly the
\* selected options, in the order attire, pose, expression, background,
\* camera angle, other, with the separator between them; a selection of the
\* same options in another order gives the same prompt
C19_SeveralOptions ==
  Len(cs.selectedOptions) > 1 =>
    LET prompt == displayPromptContent
        present == PresentOf(cs.rawAnalysisResult, InFixedOrder(cs.selectedOptions)) IN
    /\ prompt[1] = GENERIC_PREFIX
    /\ prompt[2] = Space
    /\ BodyOf(prompt) = TrimString(Join(present, Separator))
    /\ Unpadded(cs.rawAnalysisResult) => BodyOf(prompt) = Join(present, Separator)
    /\ \A i \in 1..Len(AllOptions) :
         ~Includes(cs.selectedOptions, AllOptions[i]) =>
           \A k \in 1..Len(prompt) : prompt[k] # FieldOf(AllOptions[i])
    /\ \A other \in Selections :
         SameOptions(other, cs.selectedOptions) =>
           generateFullRefinePrompt(cs.rawAnalysisResult, other) = prompt

\* C19 witness: 'other' was selected before attire, for a result that
\* describes both and the pose; the prompt shows attire before 'other' and
\* not the pose
C19_Witness ==
  /\ last.op = "handleOptionChange"
  /\ cs.selectedOptions = <<OPT_OTHER, CHARACTER_ATTIRE>>
  /\ cs.rawAnalysisResult["characterPose"] = <<"characterPose">>
  /\ displayPromptContent =
       <<GENERIC_PREFIX, Space, "characterAttire", Separator, "otherAnalysis">>

\* how many pieces of a string are separators
RECURSIVE SeparatorsIn(_)
SeparatorsIn(s) ==
  IF Len(s) = 0 THEN 0
  ELSE (IF s[1] = Separator THEN 1 ELSE 0) + SeparatorsIn(Tail(s))
\* no description of the result is white space only
NoBlankDescription(analysisData) ==
  \A field \in ResultFields :
    Truthy(analysisData[field]) => TrimString(analysisData[field]) # <<>>

\* C20: every result and every selection format to a prefix, one space and
\* a body; a missing or empty field adds no segment: the body has one
\* separator less than the result has descriptions for the options looked
\* at, and (no description being white space only) it neither begins nor
\* ends with a separator and has no two separators in a row; a result
\* without any description gives the prefix, the space and an empty body
C20_Total ==
  LET prompt == displayPromptContent
      body == BodyOf(prompt)
      lookedAt == IF Len(cs.selectedOptions) = 0
                  THEN StandardOptions
                  ELSE InFixedOrder(cs.selectedOptions)
      present == PresentOf(cs.rawAnalysisResult, lookedAt) IN
  /\ Len(prompt) >= 2
  /\ prompt[1] \in {GENERIC_PREFIX} \cup
                    {PrefixOf(StandardOptions[i]) : i \in 1..Len(StandardOptions)}
  /\ prompt[2] = Space
  /\ \A k \in 1..Len(prompt) : prompt[k] # Missing[1]
  /\ SeparatorsIn(prompt) = IF Len(present) = 0 THEN 0 ELSE Len(present) - 1
  /\ NoBlankDescription(cs.rawAnalysisResult) /\ body # <<>> =>
       /\ body[1] # Separator
       /\ body[Len(body)] # Separator
       /\ \A k \in 1..(Len(body) - 1) :
            ~(body[k] = Separator /\ body[k + 1] = Separator)
  /\ (\A field \in ResultFields : ~Truthy(cs.rawAnalysisResult[field])) =>
       Len(prompt) = 2

\* C20 witness: nothing is selected for a result with an empty attire, no
\* pose, an expression, a background and nothing else; the prompt is the
\* two descriptions with one separator between them
C20_Witness ==
  /\ last.op = "ResultArrives"
  /\ cs.selectedOptions = <<>>
  /\ cs.rawAnalysisResult =
       [characterAttire |-> <<>>,
        characterPose |-> Missing,
        characterExpression |-> <<"characterExpression">>,
        photoBackground |-> <<"photoBackground">>,
        cameraAngle |-> Missing,
        otherAnalysis |-> Missing]
  /\ displayPromptContent =
       <<GENERIC_PREFIX, Space, "characterExpression", Separator, "photoBackground">>

\* C21: when the crop of an open cropping tool is produced, the session's
\* image becomes the cropped image, its result and its error are cleared,
\* nothing else of the session changes and the tool closes; when producing
\* it fails, the session gets the crop error and keeps its image and its
\* result, and the tool stays open
C21_CropHandsBack ==
  [][last'.op = "CropDone" =>
       LET before == TabOf(tabs, last'.tab).contentState
           after == TabOf(tabs', last'.tab).contentState IN
       /\ last'.arg = "ok" =>
            /\ ModalOpen(uploader)
            /\ after = [before EXCEPT !.uploadedImage = CroppedImage,
                                      !.rawAnalysisResult = Null,
                                      !.error = NoError]
            /\ ~ModalOpen(uploader')
            /\ cropper' = InitCropper
       /\ last'.arg = "fail" =>
            /\ after = [before EXCEPT !.error = ERR_CROP_FAILED]
            /\ after.uploadedImage = before.uploadedImage
            /\ ModalOpen(uploader')
            /\ uploader' = uploader
            /\ ~cropper'.isCropping]_vars

\* C21 witness: a crop was produced for the open tool; the session holds
\* the cropped image, no result and no error, and the tool is closed
C21_Witness ==
  /\ last.op = "CropDone"
  /\ last.arg = "ok"
  /\ lastCs.uploadedImage = CroppedImage
  /\ lastCs.rawAnalysisResult = Null
  /\ lastCs.error = NoError
  /\ ~ModalOpen(uploader)

\* C22: the result of an analysis that returns is stored in the session
\* that asked for it, with the error cleared and the loading flag off,
\* whether or not the session still holds the image that was sent; the
\* held image is left as it is
C22_StaleResponseStored ==
  [][last'.op = "AnalyzeDone" /\ last'.arg = "ok" /\ last'.tab \in TabIdsOf(tabs) =>
       LET before == TabOf(tabs, last'.tab).contentState
           after == TabOf(tabs', last'.tab).contentState IN
       /\ after.rawAnalysisResult \in Results
       /\ after = [before EXCEPT !.rawAnalysisResult = after.rawAnalysisResult,
                                 !.error = NoError,
                                 !.isLoading = FALSE]]_vars

\* C22 witness: an analysis asked about the uploaded image returned after
\* the session's image had been replaced by its crop; the session holds
\* the crop together with the result for the other image
C22_Witness ==
  /\ last.op = "AnalyzeDone"
  /\ last.arg = "ok"
  /\ lastInList
  /\ last.sent \in Images
  /\ lastCs.uploadedImage = CroppedImage
  /\ lastCs.rawAnalysisResult \in Results

\* C23: once the mount effect has created the first tab, the active id is
\* the id of a session in the list
C23_ActiveInList == mounted => activeTabId \in TabIdsOf(tabs)

\* C24: in every session, a stored analysis result comes with a held image
C24_ResultNeedsImage ==
  \A i \in 1..Len(tabs) :
    tabs[i].contentState.rawAnalysisResult # Null =>
      tabs[i].contentState.uploadedImage # Null

\* C24 witness: an analysis returned its result to a session that holds an
\* image, and the image can be deleted now
C24_Witness ==
  /\ last.op = "AnalyzeDone"
  /\ last.arg = "ok"
  /\ cur = last.tab
  /\ cs.rawAnalysisResult \in Results
  /\ cs.uploadedImage # Null
  /\ ~cs.isLoading
  /\ ENABLED handleDeleteImageAndResetInput

\* the steps in which asynchronous work completes
Completions == {"AnalyzeDone", "ReadDone", "FetchDone", "CropDone"}

\* C25: when an analysis or an ingestion completes for a session that is
\* no longer in the list, the list (its sessions, their content, their
\* order) and the active id stay as they are, and so does the local state
\* of the mounted uploader and cropping tool
C25_OrphanCompletionNoOp ==
  [][last'.op \in Completions /\ last'.tab \notin TabIdsOf(tabs) =>
       /\ tabs' = tabs
       /\ activeTabId' = activeTabId
       /\ uploader' = uploader
       /\ cropper' = cropper]_vars

\* C25 witness: an analysis returned its result for a session that had
\* been deleted; the remaining session holds an image of its own
C25_Witness ==
  /\ last.op = "AnalyzeDone"
  /\ last.arg = "ok"
  /\ ~lastInList
  /\ Len(tabs) >= 1
  /\ cur # NoTab
  /\ cs.uploadedImage # Null
  /\ cs.rawAnalysisResult = Null
  /\ ~cs.isLoading

FieldWritten(op) ==
  IF op = "handleOptionChange" THEN "selectedOptions" ELSE "otherAnalysisText"

\* C27: a change of the selected options or of the free text changes that
\* one field of the session: image, result, error, loading flag and the
\* other of the two fields stay as they are; and when the output box shows
\* a prompt (no error, not loading), it is the formatter applied to the
\* stored result and the options selected now
C27_SelectionFrame ==
  [][last'.op \in {"handleOptionChange", "handleOtherAnalysisTextChange"} =>
       LET before == TabOf(tabs, last'.tab).contentState
           after == TabOf(tabs', last'.tab).contentState IN
       /\ Len(tabs') = Len(tabs)
       /\ activeTabId' = activeTabId
       /\ \A f \in DOMAIN before \ {FieldWritten(last'.op)} : after[f] = before[f]
       /\ after.error = NoError /\ ~after.isLoading =>
            promptShown(after) =
              generateFullRefinePrompt(before.rawAnalysisResult, after.selectedOptions)
       /\ after.error # NoError => promptShown(after) = promptShown(before)]_vars

\* C27 witness: attire, selected alone, was deselected in a session whose
\* result describes attire and pose; the result is the same and the prompt
\* is the one of no selection
C27_Witness ==
  /\ last.op = "handleOptionChange"
  /\ cs.selectedOptions = <<>>
  /\ cs.error = NoError
  /\ cs.rawAnalysisResult["characterAttire"] = <<"characterAttire">>
  /\ cs.rawAnalysisResult["characterPose"] = <<"characterPose">>
  /\ cs.rawAnalysisResult["characterExpression"] = Missing
  /\ cs.rawAnalysisResult["photoBackground"] = Missing
  /\ cs.rawAnalysisResult["cameraAngle"] = Missing
  /\ displayPromptContent =
       <<GENERIC_PREFIX, Space, "characterAttire", Separator, "characterPose">>

\* an ingestion of the current tab is in flight
Ingesting == cur # NoTab /\ IngestsOf(cur) > 0
\* the two flags of the uploader that disable the intake
IntakeBusy == uploader.isProcessingPaste \/ uploader.isUrlLoading

\* C28: every ingestion that was started ends, given that its fetch and
\* its file read complete; the step that ends it leaves the session with
\* the image landed or with an ingestion error, and leaves both flags of
\* the uploader false, so the flags never stay set
C28_IngestionEnds ==
  /\ [][(last'.op = "ReadDone" \/ (last'.op = "FetchDone" /\ last'.arg = "fail")) =>
          LET after == TabOf(tabs', last'.tab).contentState IN
          /\ IF last'.op = "ReadDone" /\ last'.arg = "ok"
             THEN after.uploadedImage \in Images /\ after.error = NoError
             ELSE after.error \in {ERR_READ, ERR_FETCH}
          /\ ~IntakeBusy'
          /\ ~Ingesting']_vars
  /\ Ingesting ~> ~Ingesting
  /\ IntakeBusy ~> ~IntakeBusy

\* C28 witness: the fetch of a URL load failed; the session shows the
\* fetch error, both flags are off, the URL is still in the box and can be
\* loaded again
C28_Witness ==
  /\ last.op = "FetchDone"
  /\ last.arg = "fail"
  /\ lastCs.error = ERR_FETCH
  /\ lastCs.uploadedImage = Null
  /\ ~IntakeBusy
  /\ ~Ingesting
  /\ uploader.urlInput = "good"
  /\ ENABLED UrlLoadClick

====
